---------------------------- MODULE Spec2Model ----------------------------
(***************************************************************************)
(* The computation-graph arena of rusty-micrograd (src/src/arena.rs):      *)
(* GraphArena<T: Float>, its construction operations and backward.         *)
(*                                                                         *)
(* Floating-point values are modelled as extended rationals <<n, d>>:      *)
(*   d >= 1  the finite value n/d in lowest terms,                         *)
(*   d = 0   a special value: <<1,0>> = +inf, <<-1,0>> = -inf,             *)
(*           <<0,0>> = NaN.                                                *)
(* The arithmetic below follows IEEE-754 on these values.  The inputs of   *)
(* the model are chosen so that every finite result is exactly             *)
(* representable (small integers and dyadic fractions), which makes the    *)
(* rational result the floating-point result.  +0 and -0 are one value 0   *)
(* (they compare equal in the code; the model never divides data by 0      *)
(* except inside powf(0, -1), whose result is only ever multiplied by 0).  *)
(*                                                                         *)
(* Node indices are 0-based as in the code: node i is nodes[i + 1].        *)
(***************************************************************************)
EXTENDS Integers, Sequences, FiniteSets, TLC

\* ------------------------------------------------------------------ bounds
\* The arena holds at most MaxNodes nodes in the model.
MaxNodes == 3

\* Values given to input(), exponents given to powf().
InputVals == {-1, 0, 2, 3}
Exps == {0, 1, 2}

VARIABLES
    nodes,    \* GraphArena.nodes : Vec<Node<T>>
    topo,     \* GraphArena.topo  : Vec<usize>
    call,     \* the most recent call and the index it returned
    pc,       \* "idle", "loop" while backward's propagation loop runs, "fault" after a panic
    it,       \* backward's iterator: topo entries still to be visited
    visited,  \* the node indices the propagation loop visited since the last construction
    late      \* nodes whose grad the loop wrote after having visited them

vars == <<nodes, topo, call, pc, it, visited, late>>

\* ------------------------------------------------------- float arithmetic
Abs(i) == IF i < 0 THEN -i ELSE i
Sign(i) == IF i < 0 THEN -1 ELSE IF i > 0 THEN 1 ELSE 0

RECURSIVE GCD(_, _)
GCD(a, b) == IF b = 0 THEN a ELSE GCD(b, a % b)

\* n/d, d >= 1, in lowest terms
Norm(n, d) ==
    IF d = 1 THEN <<n, 1>>
    ELSE LET g == GCD(Abs(n), d) IN <<n \div g, d \div g>>

Fin(i) == <<i, 1>>
NaN == <<0, 0>>
PInf == <<1, 0>>
NInf == <<-1, 0>>
IsFinite(x) == x[2] >= 1
IsInt(x) == x[2] = 1

\* T::zero(), T::one()
FZero == Fin(0)
FOne == Fin(1)

\* x + y
FAdd(x, y) ==
    IF IsFinite(x) /\ IsFinite(y)
    THEN Norm(x[1] * y[2] + y[1] * x[2], x[2] * y[2])
    ELSE IF x = NaN \/ y = NaN THEN NaN
    ELSE IF ~IsFinite(x) /\ ~IsFinite(y) THEN (IF x = y THEN x ELSE NaN)
    ELSE IF ~IsFinite(x) THEN x
    ELSE y

\* -x
FNeg(x) == <<-x[1], x[2]>>

\* x - y
FSub(x, y) == FAdd(x, FNeg(y))

\* x * y
FMul(x, y) ==
    IF IsFinite(x) /\ IsFinite(y)
    THEN Norm(x[1] * y[1], x[2] * y[2])
    ELSE IF x = NaN \/ y = NaN THEN NaN
    ELSE IF x[1] = 0 \/ y[1] = 0 THEN NaN
    ELSE <<Sign(x[1]) * Sign(y[1]), 0>>

\* x / y  (a zero divisor is +0)
FDiv(x, y) ==
    IF x = NaN \/ y = NaN THEN NaN
    ELSE IF ~IsFinite(x) /\ ~IsFinite(y) THEN NaN
    ELSE IF ~IsFinite(y) THEN FZero
    ELSE IF ~IsFinite(x) THEN <<x[1] * (IF y[1] < 0 THEN -1 ELSE 1), 0>>
    ELSE IF y[1] = 0 THEN (IF x[1] = 0 THEN NaN ELSE <<Sign(x[1]), 0>>)
    ELSE Norm(x[1] * y[2] * Sign(y[1]), x[2] * Abs(y[1]))

\* x > y
FGt(x, y) ==
    /\ x # NaN
    /\ y # NaN
    /\ IF ~IsFinite(x) \/ ~IsFinite(y)
       THEN x # y /\ (x = PInf \/ y = NInf)
       ELSE x[1] * y[2] > y[1] * x[2]

\* x.powf(e) for an integral exponent e
RECURSIVE PowInt(_, _)
PowInt(x, k) == IF k = 0 THEN FOne ELSE FMul(x, PowInt(x, k - 1))

PowF(x, e) ==
    IF e[1] = 0 THEN FOne
    ELSE IF e[1] > 0 THEN PowInt(x, e[1])
    ELSE FDiv(FOne, PowInt(x, -e[1]))

\* x.tanh() where it is exactly representable
TanhF(x) ==
    IF x = NaN THEN NaN
    ELSE IF x = PInf THEN FOne
    ELSE IF x = NInf THEN FNeg(FOne)
    ELSE FZero

\* The arguments on which the model evaluates tanh and division: those
\* whose result is exact in floating point.
TanhExact(x) == ~IsFinite(x) \/ x[1] = 0
DivExact(y) == IsFinite(y) /\ y[1] # 0 /\ Abs(y[1]) \in {1, 2, 4, 8}

\* ------------------------------------------------------------------ nodes
Node(ns, i) == ns[i + 1]
Indices(ns) == 0 .. (Len(ns) - 1)

\* The bounds check of self.nodes[i].
InRange(ns, i) == i < Len(ns)

\* (mutant) a new node starts with grad one
MkNodeGradOne(data, op, parents) ==
    [data |-> data, grad |-> <<1, 1>>, op |-> op, parents |-> parents]

MkNode(data, op, parents) ==
    [data |-> data, grad |-> FZero, op |-> op, parents |-> parents]

\* (mutant) the node is inserted at the front instead of appended
PushFront(ns, node) == <<node>> \o ns

\* self.nodes.push(node)
Push(ns, node) == Append(ns, node)

SetGrad(ns, i, g) == [ns EXCEPT ![i + 1].grad = g]

\* ---------------------------------------------------- backward, pure part
\* for node in &mut self.nodes { node.grad = T::zero(); }
RECURSIVE ResetFrom(_, _)
ResetFrom(ns, i) ==
    IF i > Len(ns) THEN ns
    ELSE ResetFrom([ns EXCEPT ![i].grad = FZero], i + 1)

\* (mutant) the grads are not reset
ResetNothing(ns) == ns

Reset(ns) == ResetFrom(ns, 1)

\* self.nodes[loss_idx].grad = T::one();
Seed(ns, loss_idx) == SetGrad(ns, loss_idx, FOne)

\* (mutant) the contribution overwrites the operand's grad
AccumOverwrite(ns, p, d) == SetGrad(ns, p, d)

\* (mutant) the contribution is stored in the operand's data
AccumIntoData(ns, p, d) ==
    [ns EXCEPT ![p + 1].data = FAdd(Node(ns, p).grad, d)]

\* self.nodes[p].grad = self.nodes[p].grad + d;
Accum(ns, p, d) == SetGrad(ns, p, FAdd(Node(ns, p).grad, d))

\* The arms of `match self.nodes[idx].op`, one per operation kind.
VisitAdd(ns, grad, parents) ==
    LET a == parents[1]
        b == parents[2]
    IN  Accum(Accum(ns, a, grad), b, grad)

\* (mutant) the second operand of a subtraction gains instead of losing
VisitSubPlus(ns, grad, parents) ==
    LET a == parents[1]
        b == parents[2]
    IN  Accum(Accum(ns, a, grad), b, grad)

VisitSub(ns, grad, parents) ==
    LET a == parents[1]
        b == parents[2]
    IN  Accum(Accum(ns, a, grad), b, FNeg(grad))

VisitMul(ns, grad, parents) ==
    LET a == parents[1]
        b == parents[2]
        da == FMul(Node(ns, b).data, grad)
        db == FMul(Node(ns, a).data, grad)
    IN  Accum(Accum(ns, a, da), b, db)

VisitDiv(ns, grad, parents) ==
    LET a == parents[1]
        b == parents[2]
        da == FDiv(grad, Node(ns, b).data)
        db == FDiv(FNeg(FMul(Node(ns, a).data, grad)),
                   FMul(Node(ns, b).data, Node(ns, b).data))
    IN  Accum(Accum(ns, a, da), b, db)

VisitRelu(ns, grad, parents) ==
    LET a == parents[1]
        d == IF FGt(Node(ns, a).data, FZero) THEN FOne ELSE FZero
    IN  Accum(ns, a, FMul(d, grad))

VisitTanh(ns, idx, grad, parents) ==
    LET a == parents[1]
        y == Node(ns, idx).data
        d == FSub(FOne, FMul(y, y))
    IN  Accum(ns, a, FMul(d, grad))

\* (mutant) the exponent is not decremented in the derivative
VisitPowNoDec(ns, exp, grad, parents) ==
    LET a == parents[1]
        x == Node(ns, a).data
        d == FMul(exp, PowF(x, exp))
    IN  Accum(ns, a, FMul(d, grad))

VisitPow(ns, exp, grad, parents) ==
    LET a == parents[1]
        x == Node(ns, a).data
        d == FMul(exp, PowF(x, FSub(exp, FOne)))
    IN  Accum(ns, a, FMul(d, grad))

\* The body of the propagation loop for one index of topo.
Visit(ns, idx) ==
    LET grad == Node(ns, idx).grad
        parents == Node(ns, idx).parents
        op == Node(ns, idx).op
    IN  CASE op[1] = "Add" -> VisitAdd(ns, grad, parents)
          [] op[1] = "Sub" -> VisitSub(ns, grad, parents)
          [] op[1] = "Mul" -> VisitMul(ns, grad, parents)
          [] op[1] = "Div" -> VisitDiv(ns, grad, parents)
          [] op[1] = "Relu" -> VisitRelu(ns, grad, parents)
          [] op[1] = "Tanh" -> VisitTanh(ns, idx, grad, parents)
          [] op[1] = "Pow" -> VisitPow(ns, op[2], grad, parents)
          [] op[1] = "Input" -> ns

\* The arm for idx runs without a panic: the two-element conversion
\* <[usize; 2]>::try_from(parents.clone()).unwrap() of a binary arm or the
\* access parents[0] of a unary arm succeeds, and so does every self.nodes[p].
Unpacks(ns, idx) ==
    LET parents == Node(ns, idx).parents
        op == Node(ns, idx).op
        used == CASE op[1] \in {"Add", "Sub", "Mul", "Div"} -> 2
                  [] op[1] \in {"Relu", "Tanh", "Pow"} -> 1
                  [] op[1] = "Input" -> 0
    IN  /\ IF used = 2 THEN Len(parents) = 2 ELSE Len(parents) >= used
        /\ \A k \in 1 .. used : InRange(ns, parents[k])

\* The nodes whose grad the loop body for idx assigns.
Written(ns, idx) ==
    IF Node(ns, idx).op[1] = "Input" THEN {}
    ELSE {Node(ns, idx).parents[k] : k \in 1 .. Len(Node(ns, idx).parents)}

\* self.topo.iter().rev()
RECURSIVE Rev(_)
Rev(s) == IF s = << >> THEN << >> ELSE Append(Rev(Tail(s)), Head(s))

\* (mutant) topo is walked forwards
VisitOrderForward(tp) == tp

VisitOrder(tp) == Rev(tp)

RECURSIVE Propagate(_, _)
Propagate(ns, order) ==
    IF order = << >> THEN ns
    ELSE Propagate(Visit(ns, Head(order)), Tail(order))

\* GraphArena::backward as a function of the arena
BackwardNodes(ns, tp, loss_idx) ==
    Propagate(Seed(Reset(ns), loss_idx), VisitOrder(tp))

\* ------------------------------------------------------------- operations
NoArg == 0 - 1

\* The most recent call: its name, its index arguments a and b, its value
\* argument x, the index it returned, and (for a backward taken one loop
\* iteration at a time) whether some grad was non-zero when it was called.
Called(op, a, b, x, ret, stale) ==
    [op |-> op, a |-> a, b |-> b, x |-> x, ret |-> ret, stale |-> stale]

BuildOps == {"input", "add", "sub", "mul", "div", "relu", "tanh", "powf"}

Init ==
    /\ nodes = << >>
    /\ topo = << >>
    /\ call = Called("new", NoArg, NoArg, FZero, NoArg, FALSE)
    /\ pc = "idle"
    /\ it = 0
    /\ visited = << >>
    /\ late = {}

\* The node each construction operation builds.
InputNode(data) == MkNode(data, <<"Input">>, << >>)

AddNode(ns, a, b) ==
    MkNode(FAdd(Node(ns, a).data, Node(ns, b).data), <<"Add">>, <<a, b>>)

\* (mutant) the subtraction is taken the other way round
SubNodeSwapped(ns, a, b) ==
    MkNode(FSub(Node(ns, b).data, Node(ns, a).data), <<"Sub">>, <<a, b>>)

SubNode(ns, a, b) ==
    MkNode(FSub(Node(ns, a).data, Node(ns, b).data), <<"Sub">>, <<a, b>>)

MulNode(ns, a, b) ==
    MkNode(FMul(Node(ns, a).data, Node(ns, b).data), <<"Mul">>, <<a, b>>)

DivNode(ns, a, b) ==
    MkNode(FDiv(Node(ns, a).data, Node(ns, b).data), <<"Div">>, <<a, b>>)

\* (mutant) relu forgets to record its operand
ReluNodeNoParent(ns, a) ==
    LET x == Node(ns, a).data
    IN  MkNode(IF FGt(x, FZero) THEN x ELSE FZero, <<"Relu">>, << >>)

ReluNode(ns, a) ==
    LET x == Node(ns, a).data
    IN  MkNode(IF FGt(x, FZero) THEN x ELSE FZero, <<"Relu">>, <<a>>)

TanhNode(ns, a) ==
    LET x == Node(ns, a).data
    IN  MkNode(TanhF(x), <<"Tanh">>, <<a>>)

PowNode(ns, a, exponent) ==
    MkNode(PowF(Node(ns, a).data, exponent), <<"Pow", exponent>>, <<a>>)

\* No call is running and the model's arena is not full.
CanBuild == pc = "idle" /\ Len(nodes) < MaxNodes

\* (mutant) the new index is not pushed onto topo
ConstructNoTopo(node, op, a, b, x) ==
    LET idx == Len(nodes)
    IN  /\ nodes' = Push(nodes, node)
        /\ call' = Called(op, a, b, x, idx, FALSE)
        /\ visited' = << >>
        /\ late' = {}
        /\ UNCHANGED <<topo, pc, it>>

\* The common tail of every construction operation:
\*   let idx = self.nodes.len(); self.nodes.push(..); self.topo.push(idx); idx
Construct(node, op, a, b, x) ==
    LET idx == Len(nodes)
    IN  /\ nodes' = Push(nodes, node)
        /\ topo' = Append(topo, idx)
        /\ call' = Called(op, a, b, x, idx, FALSE)
        /\ visited' = << >>
        /\ late' = {}
        /\ UNCHANGED <<pc, it>>

Input(data) == Construct(InputNode(data), "input", NoArg, NoArg, data)

Add(a, b) == Construct(AddNode(nodes, a, b), "add", a, b, FZero)

Sub(a, b) == Construct(SubNode(nodes, a, b), "sub", a, b, FZero)

Mul(a, b) == Construct(MulNode(nodes, a, b), "mul", a, b, FZero)

Div(a, b) ==
    /\ DivExact(Node(nodes, b).data)
    /\ Construct(DivNode(nodes, a, b), "div", a, b, FZero)

Relu(a) == Construct(ReluNode(nodes, a), "relu", a, NoArg, FZero)

Tanh(a) ==
    /\ TanhExact(Node(nodes, a).data)
    /\ Construct(TanhNode(nodes, a), "tanh", a, NoArg, FZero)

Powf(a, exponent) ==
    Construct(PowNode(nodes, a, exponent), "powf", a, NoArg, exponent)

\* Some grad left over from an earlier backward is non-zero.
Stale(ns) == \E i \in Indices(ns) : Node(ns, i).grad # FZero

\* backward(loss_idx), the whole call
Backward(loss_idx) ==
    /\ pc = "idle"
    /\ nodes' = BackwardNodes(nodes, topo, loss_idx)
    /\ call' = Called("backward", loss_idx, NoArg, FZero, NoArg, FALSE)
    /\ UNCHANGED <<topo, pc, it, visited, late>>

\* backward(loss_idx) up to the start of the propagation loop
BackwardBegin(loss_idx) ==
    /\ pc = "idle"
    /\ nodes' = Seed(Reset(nodes), loss_idx)
    /\ call' = Called("backward", loss_idx, NoArg, FZero, NoArg, Stale(nodes))
    /\ pc' = "loop"
    /\ it' = Len(topo)
    /\ visited' = << >>
    /\ late' = {}
    /\ UNCHANGED topo

\* one iteration of the propagation loop; the call returns after the last,
\* and panics in an arm that cannot unpack its operands
BackwardVisit ==
    /\ pc = "loop"
    /\ it > 0
    /\ LET idx == VisitOrder(topo)[Len(topo) - it + 1]
       IN  IF Unpacks(nodes, idx)
           THEN /\ nodes' = Visit(nodes, idx)
                /\ visited' = Append(visited, idx)
                /\ late' = late \cup
                       {p \in Written(nodes, idx) :
                           p = idx \/ \E k \in 1 .. Len(visited) : visited[k] = p}
                /\ it' = it - 1
                /\ pc' = IF it = 1 THEN "idle" ELSE "loop"
           ELSE /\ pc' = "fault"
                /\ UNCHANGED <<nodes, visited, late, it>>
    /\ UNCHANGED <<topo, call>>

Build ==
    \/ CanBuild /\ \E v \in InputVals : Input(Fin(v))
    \/ CanBuild /\ \E a, b \in Indices(nodes) : Add(a, b)
    \/ CanBuild /\ \E a, b \in Indices(nodes) : Sub(a, b)
    \/ CanBuild /\ \E a, b \in Indices(nodes) : Mul(a, b)
    \/ CanBuild /\ \E a, b \in Indices(nodes) : Div(a, b)
    \/ CanBuild /\ \E a \in Indices(nodes) : Relu(a)
    \/ CanBuild /\ \E a \in Indices(nodes) : Tanh(a)
    \/ CanBuild /\ \E a \in Indices(nodes), e \in Exps : Powf(a, Fin(e))

Next ==
    \/ Build
    \/ \E r \in Indices(nodes) : Backward(r)

Spec == Init /\ [][Next]_vars

\* The same program with backward's propagation loop taken one iteration
\* at a time.
NextStep ==
    \/ Build
    \/ \E r \in Indices(nodes) : BackwardBegin(r)
    \/ BackwardVisit

SpecStep == Init /\ [][NextStep]_vars

\* ----------------------------------------------------- out-of-range indices
\* The index arguments a caller may pass: the valid ones and len, the
\* smallest index that is out of range.
IndexArgs(ns) == 0 .. Len(ns)

\* self.nodes[i] with i out of range panics: the call does not return, and
\* the arena is left as the statements before the panic made it (ns).
Panic(op, a, b, x, ns) ==
    /\ pc = "idle"
    /\ nodes' = ns
    /\ call' = Called(op, a, b, x, NoArg, FALSE)
    /\ pc' = "fault"
    /\ UNCHANGED <<topo, it, visited, late>>

\* Each construction operation reads its operands' data before it pushes.
AddFault(a, b) ==
    /\ ~(InRange(nodes, a) /\ InRange(nodes, b))
    /\ Panic("add", a, b, FZero, nodes)

SubFault(a, b) ==
    /\ ~(InRange(nodes, a) /\ InRange(nodes, b))
    /\ Panic("sub", a, b, FZero, nodes)

MulFault(a, b) ==
    /\ ~(InRange(nodes, a) /\ InRange(nodes, b))
    /\ Panic("mul", a, b, FZero, nodes)

DivFault(a, b) ==
    /\ ~(InRange(nodes, a) /\ InRange(nodes, b))
    /\ Panic("div", a, b, FZero, nodes)

ReluFault(a) ==
    /\ ~InRange(nodes, a)
    /\ Panic("relu", a, NoArg, FZero, nodes)

TanhFault(a) ==
    /\ ~InRange(nodes, a)
    /\ Panic("tanh", a, NoArg, FZero, nodes)

PowfFault(a, exponent) ==
    /\ ~InRange(nodes, a)
    /\ Panic("powf", a, NoArg, exponent, nodes)

\* backward resets every grad before it indexes the root.
BackwardFault(loss_idx) ==
    /\ ~InRange(nodes, loss_idx)
    /\ Panic("backward", loss_idx, NoArg, FZero, Reset(nodes))

Fault ==
    \/ \E a, b \in IndexArgs(nodes) : AddFault(a, b)
    \/ \E a, b \in IndexArgs(nodes) : SubFault(a, b)
    \/ \E a, b \in IndexArgs(nodes) : MulFault(a, b)
    \/ \E a, b \in IndexArgs(nodes) : DivFault(a, b)
    \/ \E a \in IndexArgs(nodes) : ReluFault(a)
    \/ \E a \in IndexArgs(nodes) : TanhFault(a)
    \/ \E a \in IndexArgs(nodes), e \in Exps : PowfFault(a, Fin(e))
    \/ \E r \in IndexArgs(nodes) : BackwardFault(r)

\* The program with callers that may also pass an out-of-range index.
NextFault ==
    \/ Next
    \/ Fault

SpecFault == Init /\ [][NextFault]_vars

\* ----------------------------------------------------------------- claims
Data(i) == Node(nodes, i).data
Grad(i) == Node(nodes, i).grad
Op(i) == Node(nodes, i).op[1]
Parents(i) == Node(nodes, i).parents
AfterBackward == call.op = "backward" /\ pc = "idle"
Root == call.a

\* C1: every operand index of every node is strictly less than the node's
\* own index (creation order is a topological order, the graph is acyclic).
C1_OperandsPrecede ==
    \A i \in Indices(nodes) :
        \A k \in 1 .. Len(Parents(i)) :
            Parents(i)[k] >= 0 /\ Parents(i)[k] < i

\* a chain: node 2 reads node 1, which reads node 0
C1_Witness ==
    /\ Len(nodes) >= 3
    /\ \E k \in 1 .. Len(Parents(2)) : Parents(2)[k] = 1
    /\ \E k \in 1 .. Len(Parents(1)) : Parents(1)[k] = 0

\* C2: add(a,b), sub(a,b), mul(a,b) over integer operand values va, vb
\* create a node with value va+vb, va-vb, va*vb and operands [a, b].
C2_ForwardValue ==
    (call.op \in {"add", "sub", "mul"} /\ IsInt(Data(call.a)) /\ IsInt(Data(call.b)))
    => LET va == Data(call.a)[1]
           vb == Data(call.b)[1]
           n == Node(nodes, call.ret)
       IN  /\ n.parents = <<call.a, call.b>>
           /\ call.op = "add" => n.op = <<"Add">> /\ n.data = <<va + vb, 1>>
           /\ call.op = "sub" => n.op = <<"Sub">> /\ n.data = <<va - vb, 1>>
           /\ call.op = "mul" => n.op = <<"Mul">> /\ n.data = <<va * vb, 1>>

\* sub(a, b) with a # b and values for which a - b differs from b - a
C2_Witness ==
    /\ call.op = "sub"
    /\ call.a # call.b
    /\ IsInt(Data(call.a)) /\ IsInt(Data(call.b))
    /\ Data(call.a)[1] - Data(call.b)[1] # Data(call.b)[1] - Data(call.a)[1]
    /\ Node(nodes, call.ret).data = <<Data(call.a)[1] - Data(call.b)[1], 1>>

\* x = input(2), z = mul(x, x), w = add(z, x), then backward(w)
AccumulationCase ==
    /\ Len(nodes) = 3
    /\ Node(nodes, 0).op = <<"Input">> /\ Data(0) = <<2, 1>>
    /\ Node(nodes, 1).op = <<"Mul">> /\ Parents(1) = <<0, 0>>
    /\ Node(nodes, 2).op = <<"Add">> /\ Parents(2) = <<1, 0>>
    /\ AfterBackward
    /\ Root = 2

\* C3: in that case z has value 4, w has value 6, and backward(w) leaves
\* grad(x) = 5, grad(z) = 1, grad(w) = 1: x sums all its contributions.
C3_Accumulation ==
    AccumulationCase =>
        /\ Data(1) = <<4, 1>> /\ Data(2) = <<6, 1>>
        /\ Grad(0) = <<5, 1>> /\ Grad(1) = <<1, 1>> /\ Grad(2) = <<1, 1>>

C3_Witness == AccumulationCase /\ Grad(0) = <<5, 1>>

\* C8: every construction call appends exactly one node, returns the arena
\* length before the call, gives the new node grad 0 and leaves every
\* existing node (value, op, operands, grad) as it was.
C8_ConstructionFrame ==
    [][call'.op \in BuildOps =>
          /\ Len(nodes') = Len(nodes) + 1
          /\ call'.ret = Len(nodes)
          /\ SubSeq(nodes', 1, Len(nodes)) = nodes
          /\ nodes'[Len(nodes')].grad = <<0, 1>>]_vars

\* a construction call made after a backward that left a non-zero grad
C8_Witness ==
    /\ call.op \in BuildOps
    /\ call.ret = Len(nodes) - 1
    /\ Grad(call.ret) = <<0, 1>>
    /\ \E i \in Indices(nodes) : i < call.ret /\ Grad(i) # <<0, 1>>

\* The references to node m: the pairs <<n, k>> with m the k-th operand of n.
ConsumerRefs(m) ==
    {r \in Indices(nodes) \X {1, 2} :
        r[2] <= Len(Parents(r[1])) /\ Parents(r[1])[r[2]] = m}

\* The local derivative of node n with respect to its k-th operand.
LocalDeriv(n, k) ==
    CASE Op(n) = "Add" -> 1
      [] Op(n) = "Sub" -> IF k = 1 THEN 1 ELSE -1
      [] Op(n) = "Mul" -> Data(Parents(n)[3 - k])[1]

RECURSIVE ChainSum(_)
ChainSum(refs) ==
    IF refs = {} THEN 0
    ELSE LET r == CHOOSE r \in refs : TRUE
         IN  LocalDeriv(r[1], r[2]) * Grad(r[1])[1] + ChainSum(refs \ {r})

Polynomial == \A i \in Indices(nodes) : Op(i) \in {"Input", "Add", "Sub", "Mul"}

\* C4: on a graph of input, add, sub and mul nodes, backward(root) leaves
\* grad(root) = 1 and, for every other node m, grad(m) = the sum over every
\* reference <<n, k>> to m of (local derivative of n in operand k) * grad(n).
C4_ChainRule ==
    (AfterBackward /\ Polynomial) =>
        \A m \in Indices(nodes) :
            Grad(m) = IF m = Root THEN <<1, 1>>
                      ELSE <<ChainSum(ConsumerRefs(m)), 1>>

\* a node that is the subtrahend of the root and also feeds a product
C4_Witness ==
    /\ AfterBackward
    /\ Polynomial
    /\ Op(Root) = "Sub"
    /\ \E m \in Indices(nodes) :
          /\ Parents(Root)[2] = m
          /\ Op(Parents(Root)[1]) = "Mul"
          /\ Parents(Parents(Root)[1]) = <<m, m>>
          /\ Grad(m) = <<2 * Data(m)[1] - 1, 1>>
          /\ Data(m)[1] > 1

\* C5: the propagation loop visits the indices len-1, len-2, .., 0, each
\* once, and never writes the grad of a node it has already visited.
C5_ReverseWalk ==
    /\ late = {}
    /\ \A k \in 1 .. Len(visited) - 1 : visited[k] > visited[k + 1]
    /\ pc = "loop" =>
          /\ Len(visited) = Len(nodes) - it
          /\ \A k \in 1 .. Len(visited) : visited[k] = Len(nodes) - k
    /\ AfterBackward =>
          /\ Len(visited) = Len(nodes)
          /\ \A k \in 1 .. Len(nodes) : visited[k] = Len(nodes) - k

\* a finished walk over three nodes, one of them read twice
C5_Witness ==
    /\ AfterBackward
    /\ Len(visited) = 3
    /\ \E m \in Indices(nodes) :
          Cardinality(ConsumerRefs(m)) >= 2 /\ Grad(m) # <<0, 1>>

\* The arena as construction left it: the same nodes, every grad zero.
RECURSIVE Rebuilt(_)
Rebuilt(ns) ==
    IF ns = << >> THEN << >>
    ELSE <<[Head(ns) EXCEPT !.grad = <<0, 1>>]>> \o Rebuilt(Tail(ns))

\* C6: the grads backward(root) leaves are those it leaves on the freshly
\* built graph, whatever backward calls came before (so calling it again,
\* with the same or another root in between, gives the same grads).
C6_Idempotent ==
    AfterBackward => nodes = BackwardNodes(Rebuilt(nodes), topo, Root)

\* backward was called on an arena holding grads of an earlier backward
C6_Witness ==
    /\ AfterBackward
    /\ call.stale
    /\ Root # Len(nodes) - 1
    /\ \E m \in Indices(nodes) : m # Root /\ Grad(m) # <<0, 1>>

\* There is a forward path from m to r through consumer nodes.
RECURSIVE Reaches(_, _)
Reaches(m, r) ==
    \/ m = r
    \/ \E n \in Indices(nodes) :
          /\ n > m
          /\ \E k \in 1 .. Len(Parents(n)) : Parents(n)[k] = m
          /\ Reaches(n, r)

\* C7: after backward(root) every node with no forward path to root has
\* grad = 0.
C7_UnreachedZero ==
    AfterBackward =>
        \A m \in Indices(nodes) : ~Reaches(m, Root) => Grad(m) = <<0, 1>>

\* C9: relu(a) has value max(0, value(a)); backward adds grad(n) to grad(a)
\* when value(a) > 0 and adds 0 otherwise.
C9_ReluRule ==
    /\ call.op = "relu" =>
          Data(call.ret) = IF Data(call.a)[1] > 0 THEN Data(call.a) ELSE <<0, 1>>
    /\ AfterBackward =>
          \A n \in Indices(nodes) :
              (/\ Op(n) = "Relu"
               /\ Parents(n)[1] # Root
               /\ ConsumerRefs(Parents(n)[1]) = {<<n, 1>>})
              => Grad(Parents(n)[1]) =
                    IF Data(Parents(n)[1])[1] > 0 THEN Grad(n) ELSE <<0, 1>>

RECURSIVE IntPow(_, _)
IntPow(x, e) == IF e = 0 THEN 1 ELSE x * IntPow(x, e - 1)

\* d/dx x^e for integers x >= 0, e >= 0
PowerRule(x, e) == IF e = 0 THEN 0 ELSE e * IntPow(x, e - 1)

\* node n is a power of a non-negative integer base with a non-negative
\* integer exponent, and is the only reader of its operand
PowCase(n) ==
    /\ Op(n) = "Pow"
    /\ IsInt(Node(nodes, n).op[2]) /\ Node(nodes, n).op[2][1] >= 0
    /\ IsInt(Data(Parents(n)[1])) /\ Data(Parents(n)[1])[1] >= 0
    /\ Parents(n)[1] # Root
    /\ ConsumerRefs(Parents(n)[1]) = {<<n, 1>>}

PowForward ==
    (call.op = "powf" /\ IsInt(Data(call.a)) /\ Data(call.a)[1] >= 0) =>
        /\ Node(nodes, call.ret).op = <<"Pow", call.x>>
        /\ Data(call.ret) = <<IntPow(Data(call.a)[1], call.x[1]), 1>>

\* C10 as stated: powf(a, e) has value value(a)^e and stores e, and backward
\* adds e * value(a)^(e-1) * grad(n) to grad(a), the power rule, for every
\* non-negative integer base and exponent.
C10_PowerRuleEverywhere ==
    /\ PowForward
    /\ AfterBackward =>
          \A n \in Indices(nodes) :
              PowCase(n) =>
                  Grad(Parents(n)[1]) =
                      FMul(<<PowerRule(Data(Parents(n)[1])[1],
                                       Node(nodes, n).op[2][1]), 1>>, Grad(n))

\* C10 as amended: the same, except that for base 0 with exponent 0 the
\* factor 0 * 0^(-1) is 0 * inf and grad(a) becomes NaN.
C10_PowerRule ==
    /\ PowForward
    /\ AfterBackward =>
          \A n \in Indices(nodes) :
              PowCase(n) =>
                  Grad(Parents(n)[1]) =
                      IF Data(Parents(n)[1])[1] = 0 /\ Node(nodes, n).op[2][1] = 0
                      THEN NaN
                      ELSE FMul(<<PowerRule(Data(Parents(n)[1])[1],
                                            Node(nodes, n).op[2][1]), 1>>, Grad(n))

\* x = input(3), y = powf(x, 2) has value 9 and backward(y) gives grad(x) = 6
C10_Witness ==
    /\ AfterBackward
    /\ Len(nodes) = 2
    /\ Root = 1
    /\ Node(nodes, 0).op = <<"Input">> /\ Data(0) = <<3, 1>>
    /\ Node(nodes, 1).op = <<"Pow", <<2, 1>>>> /\ Parents(1) = <<0>>
    /\ Data(1) = <<9, 1>>
    /\ Grad(0) = <<6, 1>>

\* C11: an out-of-range index passed to any operation is fatal: the call
\* faults without returning a value, no node is appended and no field of any
\* existing node is modified when it faults.
C11_FaultFrame ==
    [][pc' = "fault" =>
          /\ call'.ret = NoArg
          /\ nodes' = nodes
          /\ topo' = topo]_vars


\* Every field of node i except grad is the same in both arenas.
SameButGrad(ns, ms, i) ==
    /\ Node(ms, i).data = Node(ns, i).data
    /\ Node(ms, i).op = Node(ns, i).op
    /\ Node(ms, i).parents = Node(ns, i).parents

\* C12: backward(root) with a valid root leaves the arena length and every
\* node's value, op (with a stored exponent) and operand list as they were,
\* and no call other than backward changes the grad of an existing node.
C12_BackwardFrame ==
    [][/\ call'.op = "backward" =>
             /\ Len(nodes') = Len(nodes)
             /\ \A i \in Indices(nodes) : SameButGrad(nodes, nodes', i)
       /\ call'.op # "backward" =>
             \A i \in Indices(nodes) :
                 Node(nodes', i).grad = Node(nodes, i).grad]_vars

\* backward has run through a power node and given its operand a grad that
\* differs from every value stored in the two nodes
C12_Witness ==
    /\ AfterBackward
    /\ \E n \in Indices(nodes) :
          /\ Node(nodes, n).op = <<"Pow", <<2, 1>>>>
          /\ Grad(n) = <<1, 1>>
          /\ Data(Parents(n)[1]) = <<3, 1>>
          /\ Grad(Parents(n)[1]) = <<6, 1>>
          /\ Data(n) = <<9, 1>>
          /\ Len(nodes) = 3


\* The operand count of each operation kind.
Arity(kind) ==
    CASE kind = "Input" -> 0
      [] kind \in {"Add", "Sub", "Mul", "Div"} -> 2
      [] kind \in {"Relu", "Tanh", "Pow"} -> 1

\* C13: in every arena the construction operations build, each node has as
\* many operands as its operation kind takes (0, 2 or 1), so backward with
\* a valid root never panics while unpacking operands and, with one loop
\* iteration left for each node not yet visited, runs to completion.
C13_OperandCounts ==
    /\ \A i \in Indices(nodes) : Len(Parents(i)) = Arity(Op(i))
    /\ pc # "fault"
    /\ \A i \in Indices(nodes) : Unpacks(nodes, i)
    /\ pc = "loop" => it \in 1 .. Len(nodes)
    /\ pc = "idle" => it = 0

\* backward has completed over a leaf, a binary node and a unary node
C13_Witness ==
    /\ AfterBackward
    /\ Len(nodes) = 3
    /\ Len(visited) = 3
    /\ Arity(Op(0)) = 0
    /\ Arity(Op(1)) = 2
    /\ Arity(Op(2)) = 1
    /\ Root = 2
    /\ Parents(2) = <<1>>


\* C14: topo has the length of nodes and topo[i] = i for every i, in every
\* state, those inside a backward call included; so the reversed iteration
\* over topo yields len-1, len-2, .., 0, the reverse of creation order.
C14_TopoIdentity ==
    /\ Len(topo) = Len(nodes)
    /\ \A i \in Indices(nodes) : topo[i + 1] = i
    /\ Len(VisitOrder(topo)) = Len(nodes)
    /\ \A k \in 1 .. Len(nodes) : VisitOrder(topo)[k] = Len(nodes) - k

\* the propagation loop is half way through a three-node arena that already
\* went through an earlier backward
C14_Witness ==
    /\ pc = "loop"
    /\ call.stale
    /\ topo = <<0, 1, 2>>
    /\ Len(nodes) = 3
    /\ it = 1
    /\ visited = <<2, 1>>

=============================================================================
